---- MODULE Spec2Model ----
(***************************************************************************)
(* State-machine model of src/iot_sender.py: the per-device simulation     *)
(* loop (device_loop), the hourly baseline drift                           *)
(* (apply_hourly_drift_for_device), the sink (IoT Hub publish and daily    *)
(* JSONL log) and the thread start-up.                                     *)
(*                                                                         *)
(* Numbers.  Readings and baselines are Python floats; they are modelled   *)
(* as fixed-point integers in thousandths (20.0 is 20000), so that         *)
(* round(x, 2) is a real conversion (to a multiple of 10).                 *)
(* Time.  datetime.now() is modelled at a resolution of half an hour: a    *)
(* clock value is a count of half-hour slots since 00:00 of day 0.         *)
(* SEND_INTERVAL (90 s) and the stagger offsets (0..70 s) are shorter than *)
(* one slot, so a sleeping task may wake in the slot it fell asleep in.    *)
(* Randomness.  random.uniform(a, b) takes one of the MaxLevel+1 evenly    *)
(* spaced values of [a, b]; random.gauss(0, s) one of the evenly spaced    *)
(* values of [-GaussSpan*s, GaussSpan*s].                                  *)
(* Sinks.  The program only ever appends to the log file and sends to the  *)
(* hub; the model keeps, per thread, what its latest tick handed to each.  *)
(*                                                                         *)
(* Loading.  The module-level code that reads devices.json and            *)
(* regions.json runs before any thread exists; Init is its outcome, for    *)
(* configurations it accepts and for configurations it rejects.            *)
(*                                                                         *)
(* Three specifications share the actions.  Spec is the fleet: two         *)
(* threads, on two devices or on one device id listed twice, every draw at *)
(* one level.  SpecSolo is one thread with every level of every draw.      *)
(* FairSpec is the fleet on two devices with every thread scheduled        *)
(* fairly.                                                                 *)
(***************************************************************************)
EXTENDS Integers, Sequences, FiniteSets, TLC

\* ------------------------------------------------------------------ bounds
MaxTocks == 1        \* half-hour advances of the wall clock in one run
MaxLevel == 2        \* a random draw takes a level in 0..MaxLevel
GaussSpan == 4       \* a gaussian draw reaches GaussSpan standard deviations

\* --------------------------------------------------------------- constants
ACTIVITY_START_HOUR == 6
ACTIVITY_START_MIN == 30

Metrics == {"temperature", "humidity", "co2", "no2", "pm25", "pm10"}

UNITS == [temperature |-> "C", humidity |-> "%", co2 |-> "ppm",
          no2 |-> "ug/m3", pm25 |-> "ug/m3", pm10 |-> "ug/m3"]

\* ------------------------------------------------------------ arithmetic
Min(a, b) == IF a <= b THEN a ELSE b
Max(a, b) == IF a >= b THEN a ELSE b

\* x / d rounded toward zero (float arithmetic has no sign bias)
DivT(x, d) == IF x >= 0 THEN x \div d ELSE -((-x) \div d)

\* a float literal with three decimals, in thousandths
Milli(units, thousandths) == units * 1000 + thousandths

Levels == 0..MaxLevel

\* random.uniform(a, b) == a + (b - a) * random(), at draw level L
Uniform(a, b, L) == a + DivT((b - a) * L, MaxLevel)

\* random.gauss(0, sigma), at draw level L
Gauss(sigma, L) == DivT(sigma * GaussSpan * (2 * L - MaxLevel), MaxLevel)

\* round(v, 2): to the nearest hundredth, ties to even
round(v) ==
    LET q == v \div 10
        r == v % 10
    IN  IF r < 5 THEN q * 10
        ELSE IF r > 5 THEN (q + 1) * 10
        ELSE IF q % 2 = 0 THEN q * 10 ELSE (q + 1) * 10

\* clamp without its upper bound
clampNoUpper(v, lo, hi) == Max(lo, v)
clamp(v, lo, hi) == Max(lo, Min(hi, v))

\* ------------------------------------------------------------------ time
TimeOfDay(h, m) == h * 2 + m \div 30
DayLen == TimeOfDay(24, 0)
DateOf(t) == t \div DayLen
SlotOf(t) == t % DayLen
HourOf(t) == SlotOf(t) \div 2
\* now.replace(hour=h, minute=m, second=0, microsecond=0)
Replace(t, h, m) == DateOf(t) * DayLen + TimeOfDay(h, m)

\* astral's sun(observer, date), converted to local naive time: a table by
\* latitude (the library is an external collaborator)
get_sun_times_for(date_obj, lat, lon) ==
    IF lat = 30
    THEN [sunrise |-> date_obj * DayLen + TimeOfDay(5, 30),
          sunset  |-> date_obj * DayLen + TimeOfDay(18, 0)]
    ELSE [sunrise |-> date_obj * DayLen + TimeOfDay(7, 0),
          sunset  |-> date_obj * DayLen + TimeOfDay(17, 0)]

\* --------------------------------------------------------- configuration
DeviceIds == {"d1", "d2", "d3", "d4"}

\* Python's None, and dict.get(key, default)
None == "None"
Get(d, k, default) == IF k \in DOMAIN d THEN d[k] ELSE default
\* a dict without key k
Without(d, k) == [x \in DOMAIN d \ {k} |-> d[x]]

\* one entry of devices.json
Dev(id) == [deviceId |-> id, connectionString |-> "HostName=hub"]

\* devices.json: the device lists the loader accepts (it does not reject a
\* list that names a device id twice)
DeviceLists == { <<Dev("d1"), Dev("d2")>>, <<Dev("d1"), Dev("d1")>> }
SoloLists == { <<Dev("d1")>>, <<Dev("d2")>>, <<Dev("d3")>>, <<Dev("d4")>> }

Typical == [temperature |-> Milli(20, 0), humidity |-> Milli(50, 0),
            co2 |-> Milli(400, 0), no2 |-> Milli(30, 0),
            pm25 |-> Milli(10, 0), pm10 |-> Milli(20, 0)]
\* a sub-zero temperature, values near and beyond the clamps
Harsh ==   [temperature |-> -Milli(10, 457), humidity |-> -Milli(2000, 0),
            co2 |-> Milli(151, 5), no2 |-> Milli(0, 500),
            pm25 |-> Milli(20000, 0), pm10 |-> Milli(5400, 0)]

\* readings next to the upper clamps
Torrid ==  [temperature |-> Milli(69, 900), humidity |-> Milli(99, 500),
            co2 |-> Milli(4990, 0), no2 |-> Milli(1995, 5),
            pm25 |-> Milli(1990, 0), pm10 |-> Milli(4985, 555)]
\* readings next to the lower clamps
Frigid ==  [temperature |-> -Milli(49, 200), humidity |-> Milli(1, 200),
            co2 |-> Milli(160, 0), no2 |-> Milli(3, 0),
            pm25 |-> Milli(0, 15), pm10 |-> 0]

Region(name, lat, ae, b) ==
    [region_name |-> name, lat |-> lat, lon |-> 31, activity_end |-> ae,
     temperature |-> b.temperature, humidity |-> b.humidity, co2 |-> b.co2,
     no2 |-> b.no2, pm25 |-> b.pm25, pm10 |-> b.pm10]

\* regions.json: the region map of the model; the entry of d3 has neither
\* an activity_end nor a region_name
Regions ==
    [d \in DeviceIds |->
        CASE d = "d1" -> Region("Cairo", 30, 22, Typical)
          [] d = "d2" -> Region("Sinai", 31, 0, Harsh)
          [] d = "d3" -> Without(Without(Region("Aswan", 30, 18, Torrid),
                                         "activity_end"), "region_name")
          [] d = "d4" -> Region("Siwa", 31, 23, Frigid)]
RegionMaps == { Regions }

\* the keys of a region entry that lines 101-106 read without a default
RequiredKeys == Metrics \cup {"lat", "lon"}

\* configurations the loader rejects: a second device entry without a
\* deviceId, without a connectionString, with an empty connectionString,
\* with a deviceId regions.json does not know, and a region entry of the
\* second device without one of its required keys
BrokenConfigs ==
    { <<ds, Regions>> : ds \in
        { <<Dev("d1"), Without(Dev("d2"), "deviceId")>>,
          <<Dev("d1"), Without(Dev("d2"), "connectionString")>>,
          <<Dev("d1"), [Dev("d2") EXCEPT !.connectionString = ""]>>,
          <<Dev("d1"), Dev("d9")>> } }
    \cup
    { <<<<Dev("d1"), Dev("d2")>>, [Regions EXCEPT !["d2"] = Without(@, k)]>> :
        k \in RequiredKeys }

Configs == (DeviceLists \X RegionMaps) \cup BrokenConfigs
SoloConfigs == SoloLists \X RegionMaps

\* ----------------------------------------------------------- the loader
\* the loader that skips an invalid entry instead of raising
RECURSIVE LoadEntriesSkipping(_, _, _)
LoadEntriesSkipping(devs, regs, idx) ==
    IF idx > Len(devs) THEN [error |-> "none", entries |-> <<>>]
    ELSE LET deviceId == Get(devs[idx], "deviceId", None)
             conn == Get(devs[idx], "connectionString", None)
             rest == LoadEntriesSkipping(devs, regs, idx + 1)
         IN  IF deviceId \in {None, ""} \/ conn \in {None, ""}
                \/ deviceId \notin DOMAIN regs
             THEN rest
             ELSE [error |-> rest.error, entries |-> <<deviceId>> \o rest.entries]
\* lines 87-95: device_entries, from entry idx of devices.json on; the
\* entries accepted before an error stay in the list
RECURSIVE LoadEntries(_, _, _)
LoadEntries(devs, regs, idx) ==
    IF idx > Len(devs) THEN [error |-> "none", entries |-> <<>>]
    ELSE LET deviceId == Get(devs[idx], "deviceId", None)
             conn == Get(devs[idx], "connectionString", None)
         IN  IF deviceId \in {None, ""} \/ conn \in {None, ""}
             THEN [error |-> "ValueError", entries |-> <<>>]
             ELSE IF deviceId \notin DOMAIN regs
             THEN [error |-> "ValueError", entries |-> <<>>]
             ELSE LET rest == LoadEntries(devs, regs, idx + 1)
                  IN  [error |-> rest.error,
                       entries |-> <<deviceId>> \o rest.entries]

\* lines 97-108: the entries whose region lacks a key that is read without
\* a default; the first of them raises KeyError
Unloadable(entries, regs) ==
    { i \in 1..Len(entries) : ~(RequiredKeys \subseteq DOMAIN regs[entries[i]]) }
\* the entries for which runtime[did] was built
Loaded(entries, regs) ==
    { i \in 1..Len(entries) : \A j \in Unloadable(entries, regs) : i < j }

\* the wall-clock instants at which the process is started
StartSlots == { TimeOfDay(6, 0), TimeOfDay(13, 30), TimeOfDay(21, 30),
                TimeOfDay(23, 30) }

VARIABLES
    clock,               \* datetime.now(), in half-hour slots
    devices,             \* devices.json as loaded
    regions,             \* regions.json as loaded
    load_error,          \* the exception that ended the loading, or "none"
    device_entries,      \* the device ids accepted by the loader
    IoTHubDeviceClient,  \* whether the azure-iot-device import succeeded
    runtime,             \* runtime[did]: base, state, lat, lon, activity_end
    last_drift_hour,     \* last_drift_hour[did]: -1 is None
    pc,                  \* pc[t]: the position of thread t in device_loop
    client,              \* client[t]: TRUE when thread t holds a hub client
    notices,             \* notices[t]: local-only notices thread t has printed
    frame,               \* frame[t]: the locals of thread t's current tick
    logfile,             \* logfile[t]: the line t's latest tick appended to the log
    hub,                 \* hub[t]: the message t's latest tick delivered to the hub
    tocks,               \* clock advances so far
    accessors,           \* accessors[did]: threads that used runtime[did]
    driftObs             \* driftObs[did]: the last drift of did, observed

vars == <<clock, devices, regions, load_error, device_entries,
          IoTHubDeviceClient, runtime, last_drift_hour, pc, client,
          notices, frame, logfile, hub, tocks, accessors, driftObs>>

\* what the module-level code sets up; no thread writes it
setup == <<devices, regions, load_error, device_entries, IoTHubDeviceClient>>

\* lines 240-246: one thread per accepted entry, started once the loading
\* has gone through
Tasks == IF load_error = "none" THEN 1..Len(device_entries) ELSE {}
Did(t) == device_entries[t]

NoPayload == [deviceId |-> "none"]

NoFrame ==
    [now |-> 0, is_after_sunset |-> FALSE, is_before_sunrise |-> FALSE,
     is_after_activity_end |-> FALSE, is_effective_day |-> FALSE,
     current_hour |-> 0, sunrise |-> 0, sunset |-> 0,
     drift_mode |-> "none", pollutant_multiplier |-> 0, no2_adj |-> 0,
     payload |-> NoPayload, sent |-> "none", logged |-> "none"]

\* the sink failed in the tick of frame f
SinkFailed(f) == f.sent = "raised" \/ f.logged = "failed"


\* ------------------------------------------------------------ drift logic
\* the drift with change = pct, not scaled by the baseline
DriftRawUnscaled(v, is_daytime_flag, L) ==
    IF is_daytime_flag
    THEN LET change == Milli(0, 70)
         IN  v + Uniform(-change, change, L)
    ELSE LET change == Milli(0, 50)
         IN  v - Uniform(0, change, L)
\* the drift with pct left at 0.07 in both modes
DriftRawOnePct(v, is_daytime_flag, L) ==
    LET change == DivT(v * 7, 100)
    IN  IF is_daytime_flag THEN v + Uniform(-change, change, L)
                           ELSE v - Uniform(0, change, L)
\* the argument of clamp in lines 121 and 126: the drifted value of one
\* metric before clamping, at draw level L
DriftRaw(v, is_daytime_flag, L) ==
    IF is_daytime_flag
    THEN LET change == DivT(v * 7, 100)
         IN  v + Uniform(-change, change, L)
    ELSE LET change == DivT(v * 5, 100)
         IN  v - Uniform(0, change, L)

\* one metric of apply_hourly_drift_for_device, at draw level L
DriftOne(v, is_daytime_flag, L) ==
    clamp(DriftRaw(v, is_daytime_flag, L), -Milli(1000, 0), Milli(10000, 0))

\* runtime[did]["base"] after apply_hourly_drift_for_device; dr[k] is the
\* level of the draw made for metric k
apply_hourly_drift_for_device(b, is_daytime_flag, dr) ==
    [k \in Metrics |-> DriftOne(b[k], is_daytime_flag, dr[k])]

\* --------------------------------------------------------- regime flags
\* the end of the window without the roll-over of hour 0 to the next day
activity_end_same_day(now, ae) == Replace(now, ae, 0)
activity_end_dt(now, ae) ==
    IF ae = 0 THEN Replace(now, ae, 0) + DayLen ELSE Replace(now, ae, 0)

\* the flags with is_after_activity_end taken from the hour of the day
ClassifyByHour(now, d) ==
    LET sun_times == get_sun_times_for(DateOf(now), d.lat, d.lon)
        activity_start == Replace(now, ACTIVITY_START_HOUR, ACTIVITY_START_MIN)
        end_dt == activity_end_dt(now, d.activity_end)
    IN  [now |-> now,
         sunrise |-> sun_times.sunrise,
         sunset |-> sun_times.sunset,
         is_after_sunset |-> now >= sun_times.sunset,
         is_before_sunrise |-> now < sun_times.sunrise,
         is_after_activity_end |-> HourOf(now) >= d.activity_end,
         is_effective_day |-> (now >= activity_start /\ now < end_dt),
         current_hour |-> HourOf(now)]
Classify(now, d) ==
    LET sun_times == get_sun_times_for(DateOf(now), d.lat, d.lon)
        activity_start == Replace(now, ACTIVITY_START_HOUR, ACTIVITY_START_MIN)
        end_dt == activity_end_dt(now, d.activity_end)
    IN  [now |-> now,
         sunrise |-> sun_times.sunrise,
         sunset |-> sun_times.sunset,
         is_after_sunset |-> now >= sun_times.sunset,
         is_before_sunrise |-> now < sun_times.sunrise,
         is_after_activity_end |-> now >= end_dt,
         is_effective_day |-> (now >= activity_start /\ now < end_dt),
         current_hour |-> HourOf(now)]

\* ------------------------------------------------------ reading synthesis
IsNight(f) == f.is_after_sunset \/ f.is_before_sunrise
\* the quiet period taken from the sun instead of the activity window
IsQuietBySun(f) == f.is_after_sunset \/ f.is_before_sunrise
IsQuiet(f) == f.is_after_activity_end \/ f.is_before_sunrise

temp_adj(f, L) ==
    IF IsNight(f) THEN Uniform(-Milli(3, 500), -Milli(0, 500), L)
                  ELSE Uniform(Milli(0, 500), Milli(2, 500), L)
hum_adj(f, L) ==
    IF IsNight(f) THEN Uniform(Milli(0, 500), Milli(4, 0), L)
                  ELSE Uniform(-Milli(3, 0), -Milli(0, 500), L)
pollutant_multiplier(f, L) ==
    IF IsQuiet(f) THEN Uniform(Milli(0, 750), Milli(0, 900), L)
                  ELSE Uniform(Milli(0, 980), Milli(1, 80), L)
no2_adj(f, L) ==
    IF IsQuiet(f) THEN Uniform(-Milli(6, 0), -Milli(1, 0), L)
    ELSE IF f.is_effective_day THEN Uniform(Milli(2, 0), Milli(10, 0), L)
                               ELSE Uniform(-Milli(1, 0), Milli(2, 0), L)

\* v * multiplier, the multiplier in thousandths, rounded toward zero (the
\* product is split so that it stays within 32 bits)
TimesAbs(a, m) == (a \div 1000) * m + ((a % 1000) * m) \div 1000
Times(v, m) == IF v >= 0 THEN TimesAbs(v, m) ELSE -TimesAbs(-v, m)

\* the clamped, unrounded readings of one tick (lines 191-196)
Readings(base, f, dr) ==
    LET m == pollutant_multiplier(f, dr.pollutant_multiplier)
    IN  [temperature |-> clamp(base.temperature + temp_adj(f, dr.temp_adj)
                                 + Gauss(Milli(0, 500), dr.gauss.temperature),
                               -Milli(50, 0), Milli(70, 0)),
         humidity |-> clamp(base.humidity + hum_adj(f, dr.hum_adj)
                              + Gauss(Milli(1, 500), dr.gauss.humidity),
                            0, Milli(100, 0)),
         co2 |-> clamp(Times(base.co2, m) + Gauss(Milli(5, 0), dr.gauss.co2),
                       Milli(150, 0), Milli(5000, 0)),
         no2 |-> clamp(Times(base.no2 + no2_adj(f, dr.no2_adj), m)
                         + Gauss(Milli(1, 500), dr.gauss.no2),
                       0, Milli(2000, 0)),
         pm25 |-> clamp(Times(base.pm25, m) + Gauss(Milli(1, 500), dr.gauss.pm25),
                        0, Milli(2000, 0)),
         pm10 |-> clamp(Times(base.pm10, m) + Gauss(Milli(3, 0), dr.gauss.pm10),
                        0, Milli(5000, 0))]

\* state.update({...}): every reading rounded to 2 decimals (lines 198-205)
Synthesize(base, f, dr) ==
    LET r == Readings(base, f, dr) IN [k \in Metrics |-> round(r[k])]

\* the payload with its period taken from the activity window
MakePayloadByActivity(deviceId, region, d, f) ==
    [deviceId |-> deviceId,
     region |-> Get(region, "region_name", deviceId),
     timestamp |-> f.now,
     readings |-> [k \in Metrics |-> <<d.state[k], UNITS[k]>>],
     period |-> IF f.is_effective_day THEN "day" ELSE "night",
     sunset |-> f.sunset,
     sunrise |-> f.sunrise,
     activity_end_hour |-> d.activity_end]
\* the payload of one tick (lines 207-221); a reading is "<value> <unit>"
MakePayload(deviceId, region, d, f) ==
    [deviceId |-> deviceId,
     region |-> Get(region, "region_name", deviceId),
     timestamp |-> f.now,
     readings |-> [k \in Metrics |-> <<d.state[k], UNITS[k]>>],
     period |-> IF IsNight(f) THEN "night" ELSE "day",
     sunset |-> f.sunset,
     sunrise |-> f.sunrise,
     activity_end_hour |-> d.activity_end]

\* ------------------------------------------------------------ the draws
\* the draws of one drift call (a level per metric) and of one synthesis
SameLevel(L) == [k \in Metrics |-> L]
DriftDrawsAt(LS) == { SameLevel(L) : L \in LS }
SynthDrawsAt(LS) ==
    { [temp_adj |-> U, hum_adj |-> U, pollutant_multiplier |-> U,
       no2_adj |-> U, gauss |-> SameLevel(G)] : U \in LS, G \in LS }
FleetLevels == {MaxLevel}

\* ----------------------------------------------------------------- Init
\* runtime[did] as built by lines 97-108 from regions[did]
InitRuntime(r) ==
    LET base == [k \in Metrics |-> r[k]]
    IN  [base |-> base, state |-> base, lat |-> r.lat, lon |-> r.lon,
         activity_end |-> Get(r, "activity_end", 22)]

InitWith(configs) ==
    /\ clock \in StartSlots
    /\ \E c \in configs :
          /\ devices = c[1]
          /\ regions = c[2]
    /\ LET loaded == LoadEntries(devices, regions, 1)
       IN  /\ device_entries = loaded.entries
           /\ runtime =
                 IF loaded.error # "none" THEN << >>
                 ELSE [did \in {device_entries[i] :
                                  i \in Loaded(device_entries, regions)}
                         |-> InitRuntime(regions[did])]
           /\ load_error =
                 IF loaded.error # "none" THEN loaded.error
                 ELSE IF Unloadable(device_entries, regions) # {}
                 THEN "KeyError" ELSE "none"
    /\ IoTHubDeviceClient \in BOOLEAN
    /\ last_drift_hour = [did \in DOMAIN runtime |-> -1]
    /\ pc = [t \in Tasks |-> "init"]
    /\ client = [t \in Tasks |-> FALSE]
    /\ notices = [t \in Tasks |-> 0]
    /\ frame = [t \in Tasks |-> NoFrame]
    /\ logfile = [t \in Tasks |-> NoPayload]
    /\ hub = [t \in Tasks |-> NoPayload]
    /\ tocks = 0
    /\ accessors = [did \in DOMAIN runtime |-> {}]
    /\ driftObs = [did \in DOMAIN runtime |->
                     [hour |-> -1, moved |-> FALSE, twice |-> FALSE]]

Init == InitWith(Configs)
InitSolo == InitWith(SoloConfigs)

\* -------------------------------------------------------------- actions
\* lines 135-145: create the hub client, then sleep the stagger offset
Startup(t) ==
    /\ pc[t] = "init"
    /\ \/ /\ IoTHubDeviceClient                 \* lines 138-139: connected
          /\ client' = [client EXCEPT ![t] = TRUE]
          /\ UNCHANGED notices
       \/ /\ IoTHubDeviceClient                 \* lines 140-141: cannot connect
          /\ notices' = [notices EXCEPT ![t] = @ + 1]
          /\ UNCHANGED client
       \/ /\ ~IoTHubDeviceClient                \* lines 142-143: no library
          /\ notices' = [notices EXCEPT ![t] = @ + 1]
          /\ UNCHANGED client
    /\ pc' = [pc EXCEPT ![t] = "sleep"]
    /\ UNCHANGED <<clock, setup, runtime,
                   last_drift_hour, frame, logfile, hub, tocks,
                   accessors, driftObs>>

\* lines 148-166: wake, read the clock, classify the regime
TickStart(t) ==
    /\ pc[t] = "sleep"
    /\ LET f == Classify(clock, runtime[Did(t)])
       IN  /\ frame' = [frame EXCEPT ![t] =
                 [NoFrame EXCEPT !.now = f.now, !.sunrise = f.sunrise,
                    !.sunset = f.sunset,
                    !.is_after_sunset = f.is_after_sunset,
                    !.is_before_sunrise = f.is_before_sunrise,
                    !.is_after_activity_end = f.is_after_activity_end,
                    !.is_effective_day = f.is_effective_day,
                    !.current_hour = f.current_hour]]
           /\ driftObs' = [driftObs EXCEPT ![Did(t)].moved =
                 @ \/ (driftObs[Did(t)].hour # -1
                       /\ driftObs[Did(t)].hour # f.current_hour)]
    /\ accessors' = [accessors EXCEPT ![Did(t)] = @ \cup {t}]
    /\ pc' = [pc EXCEPT ![t] = "check"]
    /\ UNCHANGED <<clock, setup, runtime,
                   last_drift_hour, client, notices, logfile, hub, tocks>>

\* the drift check that takes an unset last-drift-hour for "not due"
DriftCheckUnlessUnset(t) ==
    /\ pc[t] = "check"
    /\ pc' = [pc EXCEPT ![t] =
                IF last_drift_hour[Did(t)] # -1
                   /\ last_drift_hour[Did(t)] # frame[t].current_hour
                THEN "drift" ELSE "synth"]
    /\ UNCHANGED <<clock, setup, runtime, last_drift_hour, client, notices,
                   frame, logfile, hub, tocks, accessors, driftObs>>

\* lines 168-169: is a drift due?
DriftCheck(t) ==
    /\ pc[t] = "check"
    /\ pc' = [pc EXCEPT ![t] =
                IF last_drift_hour[Did(t)] # frame[t].current_hour
                THEN "drift" ELSE "synth"]
    /\ UNCHANGED <<clock, setup, runtime,
                   last_drift_hour, client, notices, frame, logfile, hub, tocks,
                   accessors, driftObs>>

\* lines 170-172: drift the baseline, remember the hour, print the mode
Drift(t, LS) ==
    /\ pc[t] = "drift"
    /\ frame' = [frame EXCEPT ![t].drift_mode =
                   IF frame[t].is_effective_day THEN "day" ELSE "night"]
    /\ \E dr \in DriftDrawsAt(LS) :
          runtime' = [runtime EXCEPT ![Did(t)].base =
              apply_hourly_drift_for_device(@, frame[t].is_effective_day, dr)]
    /\ last_drift_hour' = [last_drift_hour EXCEPT ![Did(t)] = frame[t].current_hour]
    /\ driftObs' = [driftObs EXCEPT ![Did(t)] =
          [hour |-> frame[t].current_hour, moved |-> FALSE,
           twice |-> @.twice \/ (@.hour = frame[t].current_hour /\ ~@.moved)]]
    /\ pc' = [pc EXCEPT ![t] = "synth"]
    /\ UNCHANGED <<clock, setup, client, notices, logfile, hub, tocks,
                   accessors>>

\* the synthesis that writes the readings into base (state an alias of base)
SynthIntoBase(t, LS) ==
    /\ pc[t] = "synth"
    /\ \E dr \in SynthDrawsAt(LS) :
          /\ runtime' = [runtime EXCEPT ![Did(t)].base =
                 Synthesize(runtime[Did(t)].base, frame[t], dr),
                                        ![Did(t)].state =
                 Synthesize(runtime[Did(t)].base, frame[t], dr)]
          /\ frame' = [frame EXCEPT
                 ![t].pollutant_multiplier =
                     pollutant_multiplier(frame[t], dr.pollutant_multiplier),
                 ![t].no2_adj = no2_adj(frame[t], dr.no2_adj)]
    /\ pc' = [pc EXCEPT ![t] = "payload"]
    /\ UNCHANGED <<clock, setup, last_drift_hour, client, notices, logfile,
                   hub, tocks, accessors, driftObs>>

\* the synthesis that perturbs the previous readings instead of base
SynthFromState(t, LS) ==
    /\ pc[t] = "synth"
    /\ \E dr \in SynthDrawsAt(LS) :
          /\ runtime' = [runtime EXCEPT ![Did(t)].state =
                 Synthesize(runtime[Did(t)].state, frame[t], dr)]
          /\ frame' = [frame EXCEPT
                 ![t].pollutant_multiplier =
                     pollutant_multiplier(frame[t], dr.pollutant_multiplier),
                 ![t].no2_adj = no2_adj(frame[t], dr.no2_adj)]
    /\ pc' = [pc EXCEPT ![t] = "payload"]
    /\ UNCHANGED <<clock, setup, last_drift_hour, client, notices, logfile,
                   hub, tocks, accessors, driftObs>>

\* lines 174-205: synthesize the readings from base into state
Synth(t, LS) ==
    /\ pc[t] = "synth"
    /\ \E dr \in SynthDrawsAt(LS) :
          /\ runtime' = [runtime EXCEPT ![Did(t)].state =
                 Synthesize(runtime[Did(t)].base, frame[t], dr)]
          /\ frame' = [frame EXCEPT
                 ![t].pollutant_multiplier =
                     pollutant_multiplier(frame[t], dr.pollutant_multiplier),
                 ![t].no2_adj = no2_adj(frame[t], dr.no2_adj)]
    /\ pc' = [pc EXCEPT ![t] = "payload"]
    /\ UNCHANGED <<clock, setup, last_drift_hour, client, notices, logfile,
                   hub, tocks, accessors, driftObs>>

\* lines 207-223: build the payload from state
Payload(t) ==
    /\ pc[t] = "payload"
    /\ frame' = [frame EXCEPT ![t].payload =
          MakePayload(Did(t), regions[Did(t)], runtime[Did(t)], frame[t])]
    /\ pc' = [pc EXCEPT ![t] = "send"]
    /\ UNCHANGED <<clock, setup, runtime,
                   last_drift_hour, client, notices, logfile, hub, tocks,
                   accessors, driftObs>>

\* the publish without its exception handler: a raise ends the thread
PublishUncaught(t) ==
    /\ pc[t] = "send"
    /\ \/ /\ client[t]
          /\ hub' = [hub EXCEPT ![t] = frame[t].payload]
          /\ frame' = [frame EXCEPT ![t].sent = "hub"]
          /\ pc' = [pc EXCEPT ![t] = "log"]
       \/ /\ client[t]
          /\ frame' = [frame EXCEPT ![t].sent = "raised"]
          /\ pc' = [pc EXCEPT ![t] = "dead"]
          /\ UNCHANGED hub
       \/ /\ ~client[t]
          /\ frame' = [frame EXCEPT ![t].sent = "local"]
          /\ pc' = [pc EXCEPT ![t] = "log"]
          /\ UNCHANGED hub
    /\ UNCHANGED <<clock, setup, runtime,
                   last_drift_hour, client, notices, logfile, tocks, accessors,
                   driftObs>>

\* the log write placed before the publish, its failure skipping the publish
PublishAfterLog(t) ==
    /\ pc[t] = "send"
    /\ \/ /\ client[t]
          /\ hub' = [hub EXCEPT ![t] = frame[t].payload]
          /\ frame' = [frame EXCEPT ![t].sent = "hub"]
          /\ pc' = [pc EXCEPT ![t] = "log"]
       \/ /\ client[t]
          /\ frame' = [frame EXCEPT ![t].sent = "raised"]
          /\ pc' = [pc EXCEPT ![t] = "pause"]
          /\ UNCHANGED hub
       \/ /\ ~client[t]
          /\ frame' = [frame EXCEPT ![t].sent = "local"]
          /\ pc' = [pc EXCEPT ![t] = "log"]
          /\ UNCHANGED hub
       \/ /\ frame' = [frame EXCEPT ![t].logged = "failed"]
          /\ pc' = [pc EXCEPT ![t] = "pause"]
          /\ UNCHANGED hub
    /\ UNCHANGED <<clock, setup, runtime,
                   last_drift_hour, client, notices, logfile, tocks, accessors,
                   driftObs>>

\* the publish without the test of line 226: with no client the call
\* raises, and the handler is entered before log_payload
PublishUnguarded(t) ==
    /\ pc[t] = "send"
    /\ \/ /\ client[t]
          /\ hub' = [hub EXCEPT ![t] = frame[t].payload]
          /\ frame' = [frame EXCEPT ![t].sent = "hub"]
          /\ pc' = [pc EXCEPT ![t] = "log"]
       \/ /\ frame' = [frame EXCEPT ![t].sent = "raised"]
          /\ pc' = [pc EXCEPT ![t] = "pause"]
          /\ UNCHANGED hub
    /\ UNCHANGED <<clock, setup, runtime,
                   last_drift_hour, client, notices, logfile, tocks,
                   accessors, driftObs>>

\* lines 225-230 and 232-233: publish; an exception skips to the handler
Publish(t) ==
    /\ pc[t] = "send"
    /\ \/ /\ client[t]
          /\ hub' = [hub EXCEPT ![t] = frame[t].payload]
          /\ frame' = [frame EXCEPT ![t].sent = "hub"]
          /\ pc' = [pc EXCEPT ![t] = "log"]
       \/ /\ client[t]
          /\ frame' = [frame EXCEPT ![t].sent = "raised"]
          /\ pc' = [pc EXCEPT ![t] = "pause"]
          /\ UNCHANGED hub
       \/ /\ ~client[t]
          /\ frame' = [frame EXCEPT ![t].sent = "local"]
          /\ pc' = [pc EXCEPT ![t] = "log"]
          /\ UNCHANGED hub
    /\ UNCHANGED <<clock, setup, runtime,
                   last_drift_hour, client, notices, logfile, tocks, accessors,
                   driftObs>>

\* the log write whose failure handler rolls the readings back to base
LogRollback(t) ==
    /\ pc[t] = "log"
    /\ \/ /\ logfile' = [logfile EXCEPT ![t] = frame[t].payload]
          /\ frame' = [frame EXCEPT ![t].logged = "written"]
          /\ UNCHANGED runtime
       \/ /\ frame' = [frame EXCEPT ![t].logged = "failed"]
          /\ runtime' = [runtime EXCEPT ![Did(t)].state = runtime[Did(t)].base]
          /\ UNCHANGED logfile
    /\ pc' = [pc EXCEPT ![t] = "pause"]
    /\ UNCHANGED <<clock, setup,
                   last_drift_hour, client, notices, hub, tocks, accessors,
                   driftObs>>

\* line 231 and log_payload (lines 59-68): append to the daily log; a
\* failure is caught inside log_payload
Log(t) ==
    /\ pc[t] = "log"
    /\ \/ /\ logfile' = [logfile EXCEPT ![t] = frame[t].payload]
          /\ frame' = [frame EXCEPT ![t].logged = "written"]
       \/ /\ frame' = [frame EXCEPT ![t].logged = "failed"]
          /\ UNCHANGED logfile
    /\ pc' = [pc EXCEPT ![t] = "pause"]
    /\ UNCHANGED <<clock, setup, runtime,
                   last_drift_hour, client, notices, hub, tocks, accessors,
                   driftObs>>

\* line 235: time.sleep(SEND_INTERVAL); the locals of the tick are dead,
\* and the sinks' views of the tick are dropped with them
Sleep(t) ==
    /\ pc[t] = "pause"
    /\ frame' = [frame EXCEPT ![t] = NoFrame]
    /\ logfile' = [logfile EXCEPT ![t] = NoPayload]
    /\ hub' = [hub EXCEPT ![t] = NoPayload]
    /\ pc' = [pc EXCEPT ![t] = "sleep"]
    /\ UNCHANGED <<clock, setup, runtime,
                   last_drift_hour, client, notices, tocks, accessors, driftObs>>

\* the wall clock moves on by half an hour
Tock ==
    /\ tocks < MaxTocks
    /\ tocks' = tocks + 1
    /\ clock' = clock + 1
    /\ UNCHANGED <<setup, runtime,
                   last_drift_hour, pc, client, notices, frame, logfile, hub,
                   accessors, driftObs>>

\* one step of thread t, its draws at the levels LS
Step(t, LS) ==
    \/ Startup(t)
    \/ TickStart(t)
    \/ DriftCheck(t)
    \/ Drift(t, LS)
    \/ Synth(t, LS)
    \/ Payload(t)
    \/ Publish(t)
    \/ Log(t)
    \/ Sleep(t)

Next ==
    \/ \E t \in Tasks : Startup(t)
    \/ \E t \in Tasks : TickStart(t)
    \/ \E t \in Tasks : DriftCheck(t)
    \/ \E t \in Tasks : Drift(t, FleetLevels)
    \/ \E t \in Tasks : Synth(t, FleetLevels)
    \/ \E t \in Tasks : Payload(t)
    \/ \E t \in Tasks : Publish(t)
    \/ \E t \in Tasks : Log(t)
    \/ \E t \in Tasks : Sleep(t)
    \/ Tock

NextSolo ==
    \/ \E t \in Tasks : Startup(t)
    \/ \E t \in Tasks : TickStart(t)
    \/ \E t \in Tasks : DriftCheck(t)
    \/ \E t \in Tasks : Drift(t, Levels)
    \/ \E t \in Tasks : Synth(t, Levels)
    \/ \E t \in Tasks : Payload(t)
    \/ \E t \in Tasks : Publish(t)
    \/ \E t \in Tasks : Log(t)
    \/ \E t \in Tasks : Sleep(t)
    \/ Tock

Spec == Init /\ [][Next]_vars
SpecSolo == InitSolo /\ [][NextSolo]_vars

\* the threads of the fleet; the scheduler runs every started thread again
\* and again, and time.sleep returns
FleetTasks == {1, 2}
\* the fleet on two devices, started at 13:30 with the hub library present
InitFair ==
    /\ Init
    /\ devices = <<Dev("d1"), Dev("d2")>>
    /\ regions = Regions
    /\ clock = TimeOfDay(13, 30)
    /\ IoTHubDeviceClient
FairSpec ==
    /\ InitFair
    /\ [][Next]_vars
    /\ \A t \in FleetTasks : WF_vars(t \in Tasks /\ Step(t, FleetLevels))

\* ------------------------------------------------------------------ claims
MidTick(t) ==
    pc[t] \in {"check", "drift", "synth", "payload", "send", "log", "pause"}
TickDone(t) == pc[t] = "pause"

\* C1: in a tick whose publish raised, log_payload still ran for that
\* tick's payload (the local log write is not skipped).
C1_PublishFailureStillLogs ==
    \A t \in Tasks :
        (TickDone(t) /\ frame[t].sent = "raised") => frame[t].logged # "none"

\* C2: no device's baseline is drifted twice at the same observed
\* hour-of-day without a tick of that device at another hour in between.
C2_DriftOncePerHour ==
    \A did \in DOMAIN runtime : ~driftObs[did].twice

\* C3: a night-mode drift (is_daytime_flag false) never increases the
\* baseline of a metric, negative baselines included (stated for the
\* baselines within the drift clamps, which leave them alone).
WithinDriftClamps(v) == -Milli(1000, 0) <= v /\ v <= Milli(10000, 0)
C3_NightDriftNeverIncreases ==
    [][\A t \in Tasks :
         (pc[t] = "drift" /\ pc'[t] = "synth" /\ ~frame[t].is_effective_day)
         => \A k \in Metrics :
               WithinDriftClamps(runtime[Did(t)].base[k])
               => runtime'[Did(t)].base[k] <= runtime[Did(t)].base[k]]_vars

\* C4: after the synthesis of every tick every current reading, rounded to
\* 2 decimals, lies within its clamp bounds.
Bounds ==
    [temperature |-> <<-Milli(50, 0), Milli(70, 0)>>,
     humidity |-> <<0, Milli(100, 0)>>,
     co2 |-> <<Milli(150, 0), Milli(5000, 0)>>,
     no2 |-> <<0, Milli(2000, 0)>>,
     pm25 |-> <<0, Milli(2000, 0)>>,
     pm10 |-> <<0, Milli(5000, 0)>>]
InBounds(st) ==
    \A k \in Metrics : Bounds[k][1] <= st[k] /\ st[k] <= Bounds[k][2]
Synthesized(t) == pc[t] \in {"payload", "send", "log", "pause"}
C4_ReadingsWithinBounds ==
    \A t \in Tasks : Synthesized(t) => InBounds(runtime[Did(t)].state)
\* a tick has ended with one reading on its upper and one on its lower bound
C4_Witness ==
    \E t \in Tasks :
        /\ TickDone(t)
        /\ runtime[Did(t)].state.pm25 = Bounds.pm25[2]
        /\ runtime[Did(t)].state.humidity = Bounds.humidity[1]

\* C5: no record of runtime / last_drift_hour is used by two threads.
C5_StateExclusivelyOwned ==
    \A did \in DOMAIN runtime : Cardinality(accessors[did]) <= 1

\* C6: in every tick is_effective_day is true exactly when the time of day
\* is at or after 06:30 and before activity_end:00, the end hour 0 standing
\* for the coming midnight; so with activity_end 0 it is true at 23:30.
InActivityWindow(now, ae) ==
    /\ SlotOf(now) >= TimeOfDay(6, 30)
    /\ (ae = 0 \/ SlotOf(now) < TimeOfDay(ae, 0))
C6_EffectiveDayWindow ==
    \A t \in Tasks :
        MidTick(t) =>
            frame[t].is_effective_day
                = InActivityWindow(frame[t].now, runtime[Did(t)].activity_end)
C6_Witness ==
    \E t \in Tasks :
        /\ MidTick(t)
        /\ runtime[Did(t)].activity_end = 0
        /\ SlotOf(frame[t].now) = TimeOfDay(23, 30)
        /\ frame[t].is_effective_day

\* C7: the period of every payload is "night" exactly when its timestamp
\* is before that date's sunrise or at or after that date's sunset,
\* whatever is_effective_day and the activity-end hour are.
PeriodOf(now, d) ==
    LET s == get_sun_times_for(DateOf(now), d.lat, d.lon)
    IN  IF now < s.sunrise \/ now >= s.sunset THEN "night" ELSE "day"
C7_PeriodFollowsSun ==
    \A t \in Tasks :
        frame[t].payload # NoPayload =>
            frame[t].payload.period
                = PeriodOf(frame[t].payload.timestamp, runtime[Did(t)])
\* a payload of the night built while the device's activity window is open
C7_Witness ==
    \E t \in Tasks :
        /\ frame[t].payload # NoPayload
        /\ frame[t].payload.period = "night"
        /\ frame[t].is_effective_day

\* C8: a step in which the sink fails (the publish raises, the log write
\* fails) changes no baseline, no current state and no last-drift-hour, and
\* leaves the thread at the sleep that ends the tick, with its client, from
\* where the next tick starts as after any tick.
SinkFails(t) ==
    \/ frame[t].sent # "raised" /\ frame'[t].sent = "raised"
    \/ frame[t].logged # "failed" /\ frame'[t].logged = "failed"
C8_SinkFailureLeavesState ==
    [][\A t \in Tasks :
         /\ SinkFails(t) =>
               /\ runtime' = runtime
               /\ last_drift_hour' = last_drift_hour
               /\ client' = client
               /\ pc'[t] = "pause"
         /\ (pc[t] = "pause" /\ pc'[t] # "pause") => pc'[t] = "sleep"
         /\ (pc[t] = "sleep" /\ pc'[t] # "sleep") => pc'[t] = "check"]_vars
\* a tick has ended in a raised publish, the readings it synthesized in place
C8_Witness ==
    \E t \in Tasks :
        /\ TickDone(t)
        /\ frame[t].sent = "raised"
        /\ \A k \in Metrics :
              runtime[Did(t)].state[k] = frame[t].payload.readings[k][1]

\* C9: under fair scheduling every thread starts ticks again and again,
\* whatever sinks fail; no thread reaches a terminal state.
C9_TicksForever ==
    \A t \in FleetTasks : []<>(pc[t] = "check")
\* one thread's publish has raised, the other thread's log write has
\* failed, and the clock has moved on since
C9_Witness ==
    \E t \in Tasks : \E u \in Tasks \ {t} :
        /\ frame[t].sent = "raised"
        /\ frame[u].logged = "failed"
        /\ clock > frame[t].now
        /\ clock > frame[u].now

\* C10: in a tick whose log write failed, the publish was performed as
\* usual: a thread with a client delivered that tick's payload to the hub.
C10_LogFailureKeepsPublish ==
    \A t \in Tasks :
        frame[t].logged = "failed" =>
            /\ pc[t] = "pause"
            /\ frame[t].sent = (IF client[t] THEN "hub" ELSE "local")
            /\ client[t] => hub[t] = frame[t].payload
C10_Witness ==
    \E t \in Tasks :
        /\ frame[t].logged = "failed"
        /\ client[t]
        /\ hub[t] = frame[t].payload
        /\ hub[t] # NoPayload

\* C11: when an entry of devices.json has no deviceId or no
\* connectionString, or names a device without an entry in regions.json,
\* or that entry has no lat, no lon or lacks one of the six metrics, the
\* loading ends in an exception and no thread exists: no tick runs and no
\* payload reaches the hub or the log, for any device of the list.
LacksKey(d, keys) == \E k \in keys : k \notin DOMAIN d
InvalidConfig ==
    \E i \in 1..Len(devices) :
        \/ LacksKey(devices[i], {"deviceId", "connectionString"})
        \/ devices[i].deviceId \notin DOMAIN regions
        \/ LacksKey(regions[devices[i].deviceId],
                    {"lat", "lon", "temperature", "humidity", "co2", "no2",
                     "pm25", "pm10"})
C11_InvalidConfigStartsNothing ==
    InvalidConfig =>
        /\ load_error # "none"
        /\ DOMAIN pc = {}
        /\ DOMAIN frame = {}
        /\ DOMAIN hub = {}
        /\ DOMAIN logfile = {}
\* the first entry is valid, the second has no entry in regions.json, and
\* the clock has moved on with nothing started
C11_Witness ==
    /\ InvalidConfig
    /\ Len(devices) = 2
    /\ ~LacksKey(devices[2], {"deviceId", "connectionString"})
    /\ devices[2].deviceId \notin DOMAIN regions
    /\ load_error = "ValueError"
    /\ tocks > 0

\* C12: a thread that is left without a client at startup (no library, or
\* the client could not be created) has printed its local-only notice
\* exactly once when it goes on to its first tick, never calls
\* send_message, and in every tick calls log_payload with the tick's
\* payload.
LocalOnly(t) == pc[t] # "init" /\ ~client[t]
C12_LocalOnlyStillLogs ==
    \A t \in Tasks :
        /\ pc[t] = "init" => notices[t] = 0
        /\ LocalOnly(t) =>
              /\ notices[t] = 1
              /\ frame[t].sent \in {"none", "local"}
              /\ hub[t] = NoPayload
              /\ TickDone(t) => frame[t].logged \in {"written", "failed"}
              /\ frame[t].logged = "written" => logfile[t] = frame[t].payload
\* the library is there, the client could not be created, and a tick
\* after a clock advance has written its payload to the log
C12_Witness ==
    \E t \in Tasks :
        /\ LocalOnly(t)
        /\ IoTHubDeviceClient
        /\ TickDone(t)
        /\ frame[t].now > 0 /\ tocks > 0 /\ frame[t].now = clock
        /\ frame[t].sent = "local"
        /\ logfile[t] = frame[t].payload
        /\ logfile[t] # NoPayload

\* C13: every step that changes a device's baseline is the drift step of a
\* thread of that device; the synthesis, payload, publish and log steps
\* of a tick leave every baseline as it is, so a tick without a drift ends
\* with the baseline it started with.
DriftStep(t) == pc[t] = "drift" /\ pc'[t] = "synth"
C13_OnlyDriftMovesBaseline ==
    [][/\ \A did \in DOMAIN runtime :
            runtime'[did].base # runtime[did].base
            => \E t \in Tasks : Did(t) = did /\ DriftStep(t)
       /\ \A t \in Tasks :
            (pc[t] \in {"check", "synth", "payload", "send", "log", "pause"}
             /\ pc'[t] # pc[t])
            => \A did \in DOMAIN runtime :
                  runtime'[did].base = runtime[did].base]_vars
\* a tick without a drift has ended: its readings differ from the baseline,
\* which is the one an earlier tick's drift left
C13_Witness ==
    \E t \in Tasks :
        /\ TickDone(t)
        /\ frame[t].drift_mode = "none"
        /\ runtime[Did(t)].state # runtime[Did(t)].base
        /\ runtime[Did(t)].base # InitRuntime(regions[Did(t)]).base
        /\ Cardinality({u \in Tasks : Did(u) = Did(t)}) = 1

\* C14: for every device and every hour in which it ticks, the drift is
\* applied exactly once in that hour, in the device's first tick of the
\* hour: a thread past the drift check of a tick finds its device drifted
\* at the hour of that tick, by one drift only, and the tick itself
\* drifted exactly when no drift of that hour had been applied before it.
PastDriftCheck(t) == pc[t] \in {"synth", "payload", "send", "log", "pause"}
C14_DriftExactlyOncePerHour ==
    \A t \in Tasks :
        PastDriftCheck(t) =>
            /\ driftObs[Did(t)].hour = frame[t].current_hour
            /\ ~driftObs[Did(t)].twice
            /\ last_drift_hour[Did(t)] = frame[t].current_hour

\* C15: in a tick inside the activity window and not before sunrise the
\* pollutant multiplier drawn lies in [0.98, 1.08] and the NO2 offset in
\* [2.0, 10.0], and a drift of that tick is a day-mode drift; in a tick at
\* or after the activity end, or before sunrise, the multiplier lies in
\* [0.75, 0.9] and the NO2 offset in [-6.0, -1.0].
Within(v, lo, hi) == lo <= v /\ v <= hi
BeforeSunrise(now, d) ==
    now < get_sun_times_for(DateOf(now), d.lat, d.lon).sunrise
AfterActivityEnd(now, ae) == ae # 0 /\ SlotOf(now) >= TimeOfDay(ae, 0)
C15_RegimeRanges ==
    \A t \in Tasks :
        LET f == frame[t]
            d == runtime[Did(t)]
            active == InActivityWindow(f.now, d.activity_end)
                      /\ ~BeforeSunrise(f.now, d)
            quiet == AfterActivityEnd(f.now, d.activity_end)
                     \/ BeforeSunrise(f.now, d)
        IN  /\ (Synthesized(t) /\ active) =>
                  /\ Within(f.pollutant_multiplier, Milli(0, 980), Milli(1, 80))
                  /\ Within(f.no2_adj, Milli(2, 0), Milli(10, 0))
            /\ (MidTick(t) /\ active /\ f.drift_mode # "none") =>
                  f.drift_mode = "day"
            /\ (Synthesized(t) /\ quiet) =>
                  /\ Within(f.pollutant_multiplier, Milli(0, 750), Milli(0, 900))
                  /\ Within(f.no2_adj, -Milli(6, 0), -Milli(1, 0))
\* activity_end 22 at 14:00: a day-mode drift, then a multiplier of 1.03
C15_Witness ==
    \E t \in Tasks :
        /\ Synthesized(t)
        /\ runtime[Did(t)].activity_end = 22
        /\ SlotOf(frame[t].now) = TimeOfDay(14, 0)
        /\ frame[t].drift_mode = "day"
        /\ frame[t].pollutant_multiplier = Milli(1, 30)

\* C16: the steps of a tick run in the order classify, drift check, drift,
\* synthesis, payload, sink; the readings a synthesis stores are, for some
\* draws, the ones computed from the baseline as it is at that step (after
\* the tick's drift, when it drifted) and the tick's flags, whatever the
\* previous readings were; the drift step itself leaves the readings alone.
TickOrder ==
    { <<"init", "sleep">>, <<"sleep", "check">>, <<"check", "drift">>,
      <<"check", "synth">>, <<"drift", "synth">>, <<"synth", "payload">>,
      <<"payload", "send">>, <<"send", "log">>, <<"send", "pause">>,
      <<"log", "pause">>, <<"pause", "sleep">> }
\* every combination of draws one synthesis can make
SynthDraws == SynthDrawsAt(Levels)
FromBaseline(st, base, f) ==
    \E dr \in SynthDraws : st = Synthesize(base, f, dr)
C16_SynthesisFromDriftedBaseline ==
    [][\A t \in Tasks :
         /\ pc'[t] # pc[t] => <<pc[t], pc'[t]>> \in TickOrder
         /\ (pc[t] = "synth" /\ pc'[t] # "synth") =>
               FromBaseline(runtime'[Did(t)].state, runtime[Did(t)].base,
                            frame[t])
         /\ (pc[t] = "drift" /\ pc'[t] # "drift") =>
               /\ frame'[t].drift_mode # "none"
               /\ runtime'[Did(t)].state = runtime[Did(t)].state]_vars
\* a tick that drifted has synthesized readings that no draws yield from
\* the baseline of before the drift, nor from the previous readings
C16_Witness ==
    \E t \in Tasks :
        /\ Synthesized(t)
        /\ frame[t].drift_mode # "none"
        /\ tocks > 0 /\ frame[t].now = clock
        /\ FromBaseline(runtime[Did(t)].state, runtime[Did(t)].base, frame[t])
        /\ ~FromBaseline(runtime[Did(t)].state,
                         InitRuntime(regions[Did(t)]).base, frame[t])

\* C17: one drift step moves a baseline b of any sign by at most 7% of |b|
\* in day mode and at most 5% of |b| in night mode before clamping (and
\* after it, when b is within the clamps); in day mode some draw yields a
\* value above b and some draw a value below b, for every non-zero b whose
\* 7% is not below the resolution of the model (one thousandth).
Abs(x) == IF x >= 0 THEN x ELSE -x
Pct(is_daytime_flag) == IF is_daytime_flag THEN 7 ELSE 5
C17_DriftStepBounded ==
    [][\A t \in Tasks : DriftStep(t) =>
         \A k \in Metrics :
            LET b == runtime[Did(t)].base[k]
                day == frame[t].is_effective_day
            IN  /\ \A L \in Levels :
                      Abs(DriftRaw(b, day, L) - b) * 100 <= Pct(day) * Abs(b)
                /\ \E L \in Levels :
                      runtime'[Did(t)].base[k]
                          = clamp(DriftRaw(b, day, L), -Milli(1000, 0),
                                  Milli(10000, 0))
                /\ WithinDriftClamps(b) =>
                      Abs(runtime'[Did(t)].base[k] - b) * 100
                          <= Pct(day) * Abs(b)
                /\ (day /\ Abs(b) * 7 >= 100) =>
                      /\ \E L \in Levels : DriftRaw(b, day, L) > b
                      /\ \E L \in Levels : DriftRaw(b, day, L) < b]_vars
\* one day-mode drift has raised a sub-zero baseline and lowered a
\* positive one by the full 7%
C17_Witness ==
    \E t \in Tasks :
        /\ pc[t] = "synth" /\ tocks = 0
        /\ frame[t].drift_mode = "day"
        /\ regions[Did(t)].temperature < 0
        /\ runtime[Did(t)].base.temperature > regions[Did(t)].temperature
        /\ regions[Did(t)].co2 > 0
        /\ (regions[Did(t)].co2 - runtime[Did(t)].base.co2) * 100
              > 6 * regions[Did(t)].co2

\* C18: whatever the configured baselines are, at every synthesis step the
\* baseline of every metric of the device lies in [-1000, 10000]: the
\* first tick drifts, and every drift clamps.
C18_BaselineClampedAtSynthesis ==
    \A t \in Tasks :
        pc[t] = "synth" =>
            \A k \in Metrics : WithinDriftClamps(runtime[Did(t)].base[k])
\* the first tick is about to synthesize from baselines configured as
\* -2000 and 20000, now on the clamps
C18_Witness ==
    \E t \in Tasks :
        /\ pc[t] = "synth" /\ tocks = 0
        /\ regions[Did(t)].humidity < -Milli(1000, 0)
        /\ runtime[Did(t)].base.humidity = -Milli(1000, 0)
        /\ regions[Did(t)].pm25 > Milli(10000, 0)
        /\ runtime[Did(t)].base.pm25 = Milli(10000, 0)

\* C19: drift never changes the sign of a baseline: at every moment every
\* metric's baseline is strictly positive, strictly negative or zero as
\* its configured value is, after any number of day and night drifts, and
\* one more drift of either mode, at any draw, would leave it so.
Sign(x) == IF x > 0 THEN 1 ELSE IF x < 0 THEN -1 ELSE 0
C19_DriftKeepsSign ==
    \A did \in DOMAIN runtime :
        \A k \in Metrics :
            /\ Sign(runtime[did].base[k]) = Sign(regions[did][k])
            /\ \A day \in BOOLEAN : \A L \in Levels :
                  Sign(DriftOne(runtime[did].base[k], day, L))
                      = Sign(runtime[did].base[k])
\* two drifts have moved a sub-zero baseline by more than 13% toward zero, a
\* positive one has moved, and one configured as zero is still zero
C19_Witness ==
    \E t \in Tasks :
        /\ pc[t] = "synth"
        /\ frame[t].drift_mode # "none"
        /\ regions[Did(t)].temperature < 0
        /\ (runtime[Did(t)].base.temperature - regions[Did(t)].temperature) * 100
              > 13 * Abs(regions[Did(t)].temperature)
        /\ runtime[Did(t)].base.temperature < 0
        /\ regions[Did(t)].co2 > 0
        /\ runtime[Did(t)].base.co2 # regions[Did(t)].co2
        /\ regions[Did(t)].pm10 = 0
        /\ runtime[Did(t)].base.pm10 = 0

\* C20: for a device whose activity-end hour is 0, is_after_activity_end
\* is false in every tick; its pollutant multiplier lies in [0.75, 0.9]
\* in the ticks before sunrise and in [0.98, 1.08] in every tick from
\* sunrise to midnight.
C20_MidnightEndQuietOnlyBeforeSunrise ==
    \A t \in Tasks :
        (MidTick(t) /\ runtime[Did(t)].activity_end = 0) =>
            /\ ~frame[t].is_after_activity_end
            /\ Synthesized(t) =>
                  IF BeforeSunrise(frame[t].now, runtime[Did(t)])
                  THEN Within(frame[t].pollutant_multiplier,
                              Milli(0, 750), Milli(0, 900))
                  ELSE Within(frame[t].pollutant_multiplier,
                              Milli(0, 980), Milli(1, 80))
\* activity end 0, a tick at 23:30, after sunset: a multiplier of 0.98
C20_Witness ==
    \E t \in Tasks :
        /\ Synthesized(t)
        /\ runtime[Did(t)].activity_end = 0
        /\ SlotOf(frame[t].now) = TimeOfDay(23, 30)
        /\ frame[t].is_after_sunset
        /\ frame[t].pollutant_multiplier = Milli(0, 980)

====
